---- MODULE Spec2Model ----
(***************************************************************************)
(* The credit ledger of kumar045/Django-Helpers: the views and utilities   *)
(* of helpers.py, helpers1.py and helpers3.py running as concurrent        *)
(* requests against one database.                                          *)
(*                                                                         *)
(* Amounts are DecimalField(decimal_places=2) values, written here in      *)
(* hundredths of a credit (Decimal('1.00') is 100).                        *)
(*                                                                         *)
(* The database is the committed state (balance, purchases, usages,       *)
(* posts).  A view decorated with @transaction.atomic keeps its writes in  *)
(* txn[p] until it returns (Commit) or raises (Fail); the reads of another *)
(* request never see them (READ COMMITTED, the isolation a Django project  *)
(* gets unless it is configured otherwise).  An UPDATE of a row waits for  *)
(* the transaction that holds an uncommitted UPDATE of the same row; an    *)
(* INSERT under a unique index waits for the transaction that holds an     *)
(* uncommitted INSERT of the same key.  A database that refuses the second *)
(* writer instead of making it wait (SQLite, SERIALIZABLE) raises in the   *)
(* request, which is the step Fail.                                        *)
(***************************************************************************)
EXTENDS Integers, Sequences, FiniteSets, TLC

\* ---- bounds ----
NumProcs == 2
NumUsers == 2
MaxOps == 3
MaxPosts == 1
MaxRows == 7

Procs == 1..NumProcs
Users == 1..NumUsers
PostIds == 1..(MaxPosts + 1)

\* ---- program constants ----
CREDIT_PURCHASE_AMOUNT == 5000
BOOST_COST == 100

\* amounts a client can submit in the URL of use_credit or the form of
\* purchase_credit (Decimal(...) of the submitted text)
SubmittedAmounts == {-100, 0, 100}
\* credits_needed of create_blog_post: ceil(word_count / 300)
CreditsNeeded == {0, 100}

VARIABLES
    balance,    \* CreditBalance rows: user -> sequence of the balance fields
    purchases,  \* CreditPurchase rows, in insertion order
    usages,     \* CreditUsage rows, in insertion order
    posts,      \* Post rows, post id = index
    blogs,      \* ids of the BlogPost rows
    pc,         \* where each request is in its view
    req,        \* the view and the arguments of each request
    local,      \* the view's local variables
    txn,        \* the uncommitted writes of the request's transaction
    hist,       \* the requests that returned, in the order of their return
    rolled,     \* a transaction that had written was rolled back
    nops        \* requests started so far

vars == <<balance, purchases, usages, posts, blogs, pc, req, local, txn, hist,
          rolled, nops>>
db == <<balance, purchases, usages, posts, blogs>>

NoReq == [name |-> "none", user |-> 1, amount |-> 0, post |-> 0, saved |-> TRUE]
NoLocal == [readBal |-> 0, readAt |-> 0, bal |-> 0, result |-> "none"]
NoTxn == [created |-> FALSE, balSet |-> FALSE, bal |-> 0,
          pur |-> <<>>, use |-> <<>>, boost |-> 0]

Init ==
    /\ balance = [u \in Users |-> <<>>]
    /\ purchases = <<>>
    /\ usages = <<>>
    /\ posts = <<>>
    /\ blogs = {}
    /\ pc = [p \in Procs |-> "idle"]
    /\ req = [p \in Procs |-> NoReq]
    /\ local = [p \in Procs |-> NoLocal]
    /\ txn = [p \in Procs |-> NoTxn]
    /\ hist = <<>>
    /\ rolled = FALSE
    /\ nops = 0

\* ---- the models (models.py) ----

\* the user field declared as a ForeignKey: no unique index
UniqueUser_mut == FALSE

\* CreditBalance.user is a OneToOneField: a unique index on user_id
UniqueUser == TRUE

\* use_credits without its @transaction.atomic
Atomic_mut(name) ==
    name \in {"use_credit", "purchase_credit", "purchase_credit_fixed",
              "boost_post"}

\* the views wrapped in @transaction.atomic
Atomic(name) ==
    name \in {"use_credit", "purchase_credit", "purchase_credit_fixed",
              "use_credits", "boost_post"}

\* the version of the committed ledger a read is made at
Version == Len(purchases) + Len(usages)

\* date = models.DateTimeField(auto_now_add=True): the time of the INSERT,
\* on a clock that ticks with every row committed to the ledger
Now == Version

\* ---- the ORM calls ----

\* another transaction holds an uncommitted INSERT of the user's balance row
InsertBlocked(p, u) ==
    /\ UniqueUser
    /\ \E q \in Procs \ {p} : pc[q] # "idle" /\ req[q].user = u /\ txn[q].created

\* another transaction holds an uncommitted UPDATE of the user's balance row
RowLocked(p, u) ==
    \E q \in Procs \ {p} :
        pc[q] # "idle" /\ req[q].user = u /\ txn[q].balSet /\ ~txn[q].created

\* CreditBalance.objects.get_or_create(user=u) returns: one row is there, or
\* none is and the INSERT goes through.  (With several rows get() raises
\* MultipleObjectsReturned.)
CanGetOrCreate(p, u) ==
    \/ Len(balance[u]) = 1
    \/ Len(balance[u]) = 0 /\ ~InsertBlocked(p, u)

\* balance.balance of the object get_or_create returns (default=0 when created)
GotBalance(u) == IF Len(balance[u]) = 0 THEN 0 ELSE balance[u][1]

\* the effect of get_or_create on the database and on the transaction
get_or_create(p, u, name) ==
    IF Len(balance[u]) = 0
    THEN IF Atomic(name)
         THEN /\ txn' = [txn EXCEPT ![p].created = TRUE]
              /\ UNCHANGED balance
         ELSE /\ balance' = [balance EXCEPT ![u] = Append(@, 0)]
              /\ UNCHANGED txn
    ELSE UNCHANGED <<txn, balance>>

\* balance.save(): UPDATE of the row with the value computed in Python
CanSave(p) == txn[p].created \/ ~RowLocked(p, req[p].user)

save(p, v) ==
    IF Atomic(req[p].name)
    THEN /\ txn' = [txn EXCEPT ![p].balSet = TRUE, ![p].bal = v]
         /\ UNCHANGED balance
    ELSE /\ balance' = [balance EXCEPT ![req[p].user][1] = v]
         /\ UNCHANGED txn

\* CreditUsage.objects.create(...)
create_usage(p, row) ==
    IF Atomic(req[p].name)
    THEN /\ txn' = [txn EXCEPT ![p].use = Append(@, row)]
         /\ UNCHANGED usages
    ELSE /\ usages' = Append(usages, row)
         /\ UNCHANGED txn

\* CreditPurchase.objects.create(...)
create_purchase(p, name, row) ==
    IF Atomic(name)
    THEN /\ txn' = [txn EXCEPT ![p].pur = Append(@, row)]
         /\ UNCHANGED purchases
    ELSE /\ purchases' = Append(purchases, row)
         /\ UNCHANGED txn

Begin(p, r) ==
    /\ pc[p] = "idle"
    /\ nops < MaxOps
    /\ nops' = nops + 1
    /\ req' = [req EXCEPT ![p] = r]

Read(p, u) ==
    local' = [local EXCEPT ![p] = [readBal |-> GotBalance(u), readAt |-> Version,
                                   bal |-> GotBalance(u), result |-> "none"]]

\* ---- helpers.py: use_credit ----

\* lines 56-57: amount = Decimal(amount); get_or_create
use_credit_get(p, u, a) ==
    /\ Begin(p, [name |-> "use_credit", user |-> u, amount |-> a,
                 post |-> 0, saved |-> TRUE])
    /\ CanGetOrCreate(p, u)
    /\ get_or_create(p, u, "use_credit")
    /\ Read(p, u)
    /\ pc' = [pc EXCEPT ![p] = "uc_check"]
    /\ UNCHANGED <<purchases, usages, posts, hist, rolled, blogs>>

\* lines 59-61: balance.balance -= amount; balance.save()
use_credit_save(p) ==
    /\ pc[p] = "uc_check"
    /\ local[p].bal >= req[p].amount
    /\ CanSave(p)
    /\ save(p, local[p].bal - req[p].amount)
    /\ pc' = [pc EXCEPT ![p] = "uc_create"]
    /\ UNCHANGED <<purchases, usages, posts, req, local, hist, rolled, nops,
                   blogs>>

\* line 62: CreditUsage.objects.create
use_credit_create(p) ==
    /\ pc[p] = "uc_create"
    /\ create_usage(p, [user |-> req[p].user, amount |-> req[p].amount,
                        date |-> Now,
                        description |-> <<"Credit usage">>, object |-> 0])
    /\ local' = [local EXCEPT ![p].result = "ok"]
    /\ pc' = [pc EXCEPT ![p] = "commit"]
    /\ UNCHANGED <<balance, purchases, posts, req, hist, rolled, nops, blogs>>

\* the usage row created whatever the comparison says
use_credit_insufficient_mut(p) ==
    /\ pc[p] = "uc_check"
    /\ local[p].bal < req[p].amount
    /\ create_usage(p, [user |-> req[p].user, amount |-> req[p].amount,
                        date |-> Now,
                        description |-> <<"Credit usage">>, object |-> 0])
    /\ local' = [local EXCEPT ![p].result = "insufficient"]
    /\ pc' = [pc EXCEPT ![p] = "commit"]
    /\ UNCHANGED <<balance, purchases, posts, req, hist, rolled, nops, blogs>>

\* lines 65-67: the else branch
use_credit_insufficient(p) ==
    /\ pc[p] = "uc_check"
    /\ local[p].bal < req[p].amount
    /\ local' = [local EXCEPT ![p].result = "insufficient"]
    /\ pc' = [pc EXCEPT ![p] = "commit"]
    /\ UNCHANGED <<db, req, txn, hist, rolled, nops>>

\* ---- helpers.py: purchase_credit ----

\* line 72 false, line 82: a GET renders the form
purchase_credit_render(p, u) ==
    /\ pc[p] = "idle"
    /\ nops < MaxOps
    /\ nops' = nops + 1
    /\ UNCHANGED <<db, pc, req, local, txn, hist, rolled>>

\* lines 73-76: amount = Decimal(request.POST.get('amount', 0));
\* CreditPurchase.objects.create
purchase_credit_create(p, u, a) ==
    /\ Begin(p, [name |-> "purchase_credit", user |-> u, amount |-> a,
                 post |-> 0, saved |-> TRUE])
    /\ create_purchase(p, "purchase_credit",
                       [user |-> u, amount |-> a, date |-> Now])
    /\ pc' = [pc EXCEPT ![p] = "pc_get"]
    /\ UNCHANGED <<balance, usages, posts, local, hist, rolled, blogs>>

\* line 77: get_or_create
purchase_credit_get(p) ==
    /\ pc[p] = "pc_get"
    /\ CanGetOrCreate(p, req[p].user)
    /\ get_or_create(p, req[p].user, req[p].name)
    /\ Read(p, req[p].user)
    /\ pc' = [pc EXCEPT ![p] = "pc_save"]
    /\ UNCHANGED <<purchases, usages, posts, req, hist, rolled, nops, blogs>>

\* lines 78-79: balance.balance += amount; balance.save()
purchase_credit_save(p) ==
    /\ pc[p] = "pc_save"
    /\ CanSave(p)
    /\ save(p, local[p].bal + req[p].amount)
    /\ local' = [local EXCEPT ![p].result = "ok"]
    /\ pc' = [pc EXCEPT ![p] = "commit"]
    /\ UNCHANGED <<purchases, usages, posts, req, hist, rolled, nops, blogs>>

\* ---- helpers3.py (and helpers1.py): purchase_credit ----

\* line 68: get_or_create
purchase_credit_fixed_get(p, u) ==
    /\ Begin(p, [name |-> "purchase_credit_fixed", user |-> u,
                 amount |-> CREDIT_PURCHASE_AMOUNT, post |-> 0, saved |-> TRUE])
    /\ CanGetOrCreate(p, u)
    /\ get_or_create(p, u, "purchase_credit_fixed")
    /\ Read(p, u)
    /\ pc' = [pc EXCEPT ![p] = "pf_save"]
    /\ UNCHANGED <<purchases, usages, posts, hist, rolled, blogs>>

\* lines 69-70: balance.balance += CREDIT_PURCHASE_AMOUNT; balance.save()
purchase_credit_fixed_save(p) ==
    /\ pc[p] = "pf_save"
    /\ CanSave(p)
    /\ save(p, local[p].bal + CREDIT_PURCHASE_AMOUNT)
    /\ pc' = [pc EXCEPT ![p] = "pf_create"]
    /\ UNCHANGED <<purchases, usages, posts, req, local, hist, rolled, nops,
                   blogs>>

\* line 72: CreditPurchase.objects.create
purchase_credit_fixed_create(p) ==
    /\ pc[p] = "pf_create"
    /\ create_purchase(p, req[p].name,
                       [user |-> req[p].user, amount |-> CREDIT_PURCHASE_AMOUNT,
                        date |-> Now])
    /\ local' = [local EXCEPT ![p].result = "ok"]
    /\ pc' = [pc EXCEPT ![p] = "commit"]
    /\ UNCHANGED <<balance, usages, posts, req, hist, rolled, nops, blogs>>

\* ---- helpers1.py: check_credit_balance, use_credits ----

\* create_blog_post builds blog_post (line 151) and calls use_credits with it
\* (line 153); post is the key the BlogPost row gets, saved tells whether the
\* object has that key from its construction on (the BlogPost model is not
\* part of the source: with an automatic key it has none before save()).
\* lines 40-42, called at line 46: get_or_create; balance.balance >= amount
check_credit_balance(p, u, a, saved) ==
    /\ Begin(p, [name |-> "use_credits", user |-> u, amount |-> a,
                 post |-> nops + 1, saved |-> saved])
    /\ CanGetOrCreate(p, u)
    /\ get_or_create(p, u, "use_credits")
    /\ Read(p, u)
    /\ pc' = [pc EXCEPT ![p] = "ucs_check"]
    /\ UNCHANGED <<purchases, usages, posts, hist, rolled, blogs>>

\* line 47: balance = CreditBalance.objects.get(user=user), a second SELECT
use_credits_get(p) ==
    /\ pc[p] = "ucs_check"
    /\ local[p].readBal >= req[p].amount
    /\ txn[p].created \/ Len(balance[req[p].user]) = 1
    /\ local' = [local EXCEPT ![p].bal =
                    IF txn[p].created THEN 0 ELSE balance[req[p].user][1]]
    /\ pc' = [pc EXCEPT ![p] = "ucs_save"]
    /\ UNCHANGED <<db, req, txn, hist, rolled, nops>>

\* lines 48-49: balance.balance -= amount; balance.save()
use_credits_save(p) ==
    /\ pc[p] = "ucs_save"
    /\ CanSave(p)
    /\ save(p, local[p].bal - req[p].amount)
    /\ pc' = [pc EXCEPT ![p] = "ucs_create"]
    /\ UNCHANGED <<purchases, usages, posts, req, local, hist, rolled, nops,
                   blogs>>

\* lines 51-57: CreditUsage.objects.create(..., content_object=content_object)
use_credits_create(p) ==
    /\ pc[p] = "ucs_create"
    /\ req[p].saved
    /\ create_usage(p, [user |-> req[p].user, amount |-> req[p].amount,
                        date |-> Now,
                        description |-> <<"given">>,
                        object |-> req[p].post])
    /\ local' = [local EXCEPT ![p].result = "ok"]
    /\ pc' = [pc EXCEPT ![p] = "commit"]
    /\ UNCHANGED <<balance, purchases, posts, req, hist, rolled, nops, blogs>>

\* lines 51-56 with a content_object that has no primary key yet (line 151
\* builds the BlogPost, line 154 saves it only afterwards): object_id is
\* None, the INSERT raises and transaction.atomic rolls back
use_credits_create_unsaved(p) ==
    /\ pc[p] = "ucs_create"
    /\ ~req[p].saved
    /\ pc' = [pc EXCEPT ![p] = "idle"]
    /\ req' = [req EXCEPT ![p] = NoReq]
    /\ local' = [local EXCEPT ![p] = NoLocal]
    /\ txn' = [txn EXCEPT ![p] = NoTxn]
    /\ rolled' = (rolled \/ txn[p] # NoTxn)
    /\ UNCHANGED <<db, hist, nops>>

\* helpers1.py line 154: blog_post.save(), after use_credits has committed
create_blog_post_save(p) ==
    /\ pc[p] = "cbp_save"
    /\ blogs' = blogs \cup {req[p].post}
    /\ pc' = [pc EXCEPT ![p] = "idle"]
    /\ req' = [req EXCEPT ![p] = NoReq]
    /\ UNCHANGED <<balance, purchases, usages, posts, local, txn, hist, rolled,
                   nops>>

\* line 58: return False
use_credits_insufficient(p) ==
    /\ pc[p] = "ucs_check"
    /\ local[p].readBal < req[p].amount
    /\ local' = [local EXCEPT ![p].result = "insufficient"]
    /\ pc' = [pc EXCEPT ![p] = "commit"]
    /\ UNCHANGED <<db, req, txn, hist, rolled, nops>>

\* ---- helpers3.py: boost_post, post_list, create_post ----

\* get_object_or_404(Post, id=post_id) without the owner filter
PostFound_mut(u, id) == id <= Len(posts)

\* get_object_or_404(Post, id=post_id, user=request.user) finds the post
PostFound(u, id) == id <= Len(posts) /\ posts[id].user = u

\* another transaction holds an uncommitted UPDATE of the post row
PostLocked(p, id) ==
    \E q \in Procs \ {p} : pc[q] # "idle" /\ txn[q].boost = id

\* lines 80-81: get_object_or_404; get_or_create
boost_post_get(p, u, id) ==
    /\ Begin(p, [name |-> "boost_post", user |-> u, amount |-> BOOST_COST,
                 post |-> id, saved |-> TRUE])
    /\ PostFound(u, id)
    /\ CanGetOrCreate(p, u)
    /\ get_or_create(p, u, "boost_post")
    /\ Read(p, u)
    /\ pc' = [pc EXCEPT ![p] = "bp_check"]
    /\ UNCHANGED <<purchases, usages, posts, hist, rolled, blogs>>

\* line 80: get_object_or_404 raises Http404
boost_post_404(p, u, id) ==
    /\ pc[p] = "idle"
    /\ nops < MaxOps
    /\ ~PostFound(u, id)
    /\ hist' = Append(hist, [name |-> "boost_post", user |-> u,
                             amount |-> BOOST_COST, post |-> id,
                             result |-> "not_found",
                             readBal |-> 0, readAt |-> 0])
    /\ nops' = nops + 1
    /\ UNCHANGED <<db, pc, req, local, txn, rolled>>

\* lines 83-85: balance.balance -= BOOST_COST; balance.save()
boost_post_save(p) ==
    /\ pc[p] = "bp_check"
    /\ local[p].bal >= BOOST_COST
    /\ CanSave(p)
    /\ save(p, local[p].bal - BOOST_COST)
    /\ pc' = [pc EXCEPT ![p] = "bp_post"]
    /\ UNCHANGED <<purchases, usages, posts, req, local, hist, rolled, nops,
                   blogs>>

\* lines 87-88: post.is_boosted = True; post.save()
boost_post_boost(p) ==
    /\ pc[p] = "bp_post"
    /\ ~PostLocked(p, req[p].post)
    /\ IF Atomic(req[p].name)
       THEN /\ txn' = [txn EXCEPT ![p].boost = req[p].post]
            /\ UNCHANGED posts
       ELSE /\ posts' = [posts EXCEPT ![req[p].post].is_boosted = TRUE]
            /\ UNCHANGED txn
    /\ pc' = [pc EXCEPT ![p] = "bp_create"]
    /\ UNCHANGED <<balance, purchases, usages, req, local, hist, rolled, nops,
                   blogs>>

\* line 90: CreditUsage.objects.create
boost_post_create(p) ==
    /\ pc[p] = "bp_create"
    /\ create_usage(p, [user |-> req[p].user, amount |-> BOOST_COST,
                        date |-> Now,
                        description |-> <<"Boost post", req[p].post>>,
                        object |-> 0])
    /\ local' = [local EXCEPT ![p].result = "ok"]
    /\ pc' = [pc EXCEPT ![p] = "commit"]
    /\ UNCHANGED <<balance, purchases, posts, req, hist, rolled, nops, blogs>>

\* an else branch that boosts the post all the same
boost_post_insufficient_mut(p) ==
    /\ pc[p] = "bp_check"
    /\ local[p].bal < BOOST_COST
    /\ local' = [local EXCEPT ![p].result = "insufficient"]
    /\ txn' = [txn EXCEPT ![p].boost = req[p].post]
    /\ pc' = [pc EXCEPT ![p] = "commit"]
    /\ UNCHANGED <<db, req, hist, rolled, nops>>

\* lines 93-94: the else branch
boost_post_insufficient(p) ==
    /\ pc[p] = "bp_check"
    /\ local[p].bal < BOOST_COST
    /\ local' = [local EXCEPT ![p].result = "insufficient"]
    /\ pc' = [pc EXCEPT ![p] = "commit"]
    /\ UNCHANGED <<db, req, txn, hist, rolled, nops>>

\* lines 99-107: post_list reads the posts and get_or_create's the balance,
\* outside any transaction (each statement commits by itself)
post_list(p, u) ==
    /\ pc[p] = "idle"
    /\ nops < MaxOps
    /\ CanGetOrCreate(p, u)
    /\ get_or_create(p, u, "post_list")
    /\ nops' = nops + 1
    /\ UNCHANGED <<purchases, usages, posts, pc, req, local, hist, rolled,
                   blogs>>

\* lines 111-115: Post.objects.create on a POST
create_post(p, u) ==
    /\ pc[p] = "idle"
    /\ nops < MaxOps
    /\ Len(posts) < MaxPosts
    /\ posts' = Append(posts, [user |-> u, is_boosted |-> FALSE])
    /\ UNCHANGED <<balance, purchases, usages, pc, req, local, txn, hist,
                   rolled, nops, blogs>>

\* ---- credit_summary (helpers.py 38-51, helpers1.py 71-84, helpers3.py 50-63)

\* the view as one step, for the requests that run beside it: get_or_create
\* outside any transaction is its one write; the other statements only read
credit_summary(p, u) ==
    /\ pc[p] = "idle"
    /\ nops < MaxOps
    /\ CanGetOrCreate(p, u)
    /\ get_or_create(p, u, "credit_summary")
    /\ nops' = nops + 1
    /\ UNCHANGED <<purchases, usages, posts, pc, req, local, hist, rolled,
                   blogs>>

\* ---- credit_summary, statement by statement ----
\* (helpers.py 38-51; helpers1.py 71-84 and helpers3.py 50-63 are the same)

RECURSIVE SumAmounts_mut(_, _)
\* the sum over the rows of every user
SumAmounts_mut(rows, u) ==
    IF rows = <<>> THEN 0
    ELSE Head(rows).amount + SumAmounts_mut(Tail(rows), u)

RECURSIVE SumAmounts(_, _)
\* sum(row.amount for row in rows.filter(user=u))
SumAmounts(rows, u) ==
    IF rows = <<>> THEN 0
    ELSE (IF Head(rows).user = u THEN Head(rows).amount ELSE 0)
         + SumAmounts(Tail(rows), u)

\* the ids of the user's rows: objects.filter(user=request.user)
RowsOf(rows, u) == {i \in 1..Len(rows) : rows[i].user = u}

RECURSIVE Sorted(_, _)
\* the orders in which ORDER BY date DESC can return the rows S; rows of
\* equal date come in any order
Sorted(rows, S) ==
    IF S = {} THEN {<<>>}
    ELSE UNION {{<<i>> \o t : t \in Sorted(rows, S \ {i})} :
                   i \in {j \in S : \A k \in S : rows[j].date >= rows[k].date}}

\* rows.order_by('-date')[:5] without the filter on the user
RecentRows_mut(rows, u) ==
    {SubSeq(t, 1, IF Len(t) < 5 THEN Len(t) ELSE 5) :
        t \in Sorted(rows, 1..Len(rows))}

\* rows.filter(user=u).order_by('-date')[:5]: the results the query can give
RecentRows(rows, u) ==
    {SubSeq(t, 1, IF Len(t) < 5 THEN Len(t) ELSE 5) :
        t \in Sorted(rows, RowsOf(rows, u))}

\* lines 40-42: the two querysets are built (no query yet); get_or_create
\* runs outside any transaction and commits by itself
credit_summary_get(p, u) ==
    /\ Begin(p, [name |-> "credit_summary", user |-> u, amount |-> 0,
                 post |-> 0, saved |-> TRUE])
    /\ CanGetOrCreate(p, u)
    /\ get_or_create(p, u, "credit_summary")
    /\ local' = [local EXCEPT ![p] =
                    [created |-> Len(balance[u]) = 0,
                     current_balance |-> GotBalance(u),
                     total_purchased |-> 0, total_used |-> 0,
                     recent_purchases |-> <<>>, recent_usages |-> <<>>]]
    /\ pc' = [pc EXCEPT ![p] = "cs_purchased"]
    /\ UNCHANGED <<purchases, usages, posts, blogs, hist, rolled>>

\* line 45: sum(purchase.amount for purchase in purchases)
credit_summary_total_purchased(p) ==
    /\ pc[p] = "cs_purchased"
    /\ local' = [local EXCEPT ![p].total_purchased =
                    SumAmounts(purchases, req[p].user)]
    /\ pc' = [pc EXCEPT ![p] = "cs_used"]
    /\ UNCHANGED <<db, req, txn, hist, rolled, nops>>

\* line 46: sum(usage.amount for usage in usages)
credit_summary_total_used(p) ==
    /\ pc[p] = "cs_used"
    /\ local' = [local EXCEPT ![p].total_used =
                    SumAmounts(usages, req[p].user)]
    /\ pc' = [pc EXCEPT ![p] = "cs_recent_p"]
    /\ UNCHANGED <<db, req, txn, hist, rolled, nops>>

\* line 48, evaluated when the template iterates (line 115)
credit_summary_recent_purchases(p) ==
    /\ pc[p] = "cs_recent_p"
    /\ \E t \in RecentRows(purchases, req[p].user) :
          local' = [local EXCEPT ![p].recent_purchases = t]
    /\ pc' = [pc EXCEPT ![p] = "cs_recent_u"]
    /\ UNCHANGED <<db, req, txn, hist, rolled, nops>>

\* line 49, evaluated when the template iterates (line 122)
credit_summary_recent_usages(p) ==
    /\ pc[p] = "cs_recent_u"
    /\ \E t \in RecentRows(usages, req[p].user) :
          local' = [local EXCEPT ![p].recent_usages = t]
    /\ pc' = [pc EXCEPT ![p] = "cs_return"]
    /\ UNCHANGED <<db, req, txn, hist, rolled, nops>>

\* line 51: the rendered page is returned
credit_summary_return(p) ==
    /\ pc[p] = "cs_return"
    /\ pc' = [pc EXCEPT ![p] = "idle"]
    /\ req' = [req EXCEPT ![p] = NoReq]
    /\ local' = [local EXCEPT ![p] = NoLocal]
    /\ UNCHANGED <<db, txn, hist, rolled, nops>>

\* ---- the end of a request ----

\* the view returns and transaction.atomic commits; use_credits is the one
\* function that is not a view: when it returns True its caller goes on to
\* line 154, outside the transaction
Commit(p) ==
    /\ pc[p] = "commit"
    /\ LET u == req[p].user
           t == txn[p]
       IN /\ balance' =
                 [balance EXCEPT ![u] =
                     IF t.created THEN Append(@, t.bal)
                     ELSE IF t.balSet THEN [@ EXCEPT ![1] = t.bal]
                     ELSE @]
          /\ purchases' = purchases \o t.pur
          /\ usages' = usages \o t.use
          /\ posts' = IF t.boost = 0 THEN posts
                      ELSE [posts EXCEPT ![t.boost].is_boosted = TRUE]
    /\ hist' = Append(hist, [name |-> req[p].name, user |-> req[p].user,
                             amount |-> req[p].amount, post |-> req[p].post,
                             result |-> local[p].result,
                             readBal |-> local[p].readBal,
                             readAt |-> local[p].readAt])
    /\ IF req[p].name = "use_credits" /\ local[p].result = "ok"
       THEN pc' = [pc EXCEPT ![p] = "cbp_save"] /\ UNCHANGED req
       ELSE pc' = [pc EXCEPT ![p] = "idle"] /\ req' = [req EXCEPT ![p] = NoReq]
    /\ local' = [local EXCEPT ![p] = NoLocal]
    /\ txn' = [txn EXCEPT ![p] = NoTxn]
    /\ UNCHANGED <<blogs, rolled, nops>>

\* the view raises, the request is cancelled or the commit fails:
\* transaction.atomic rolls back
Fail(p) ==
    /\ pc[p] # "idle"
    /\ pc' = [pc EXCEPT ![p] = "idle"]
    /\ req' = [req EXCEPT ![p] = NoReq]
    /\ local' = [local EXCEPT ![p] = NoLocal]
    /\ txn' = [txn EXCEPT ![p] = NoTxn]
    /\ rolled' = (rolled \/ txn[p] # NoTxn)
    /\ UNCHANGED <<db, hist, nops>>

Next ==
    \E p \in Procs :
        \/ \E u \in Users, a \in SubmittedAmounts : use_credit_get(p, u, a)
        \/ use_credit_save(p)
        \/ use_credit_create(p)
        \/ use_credit_insufficient(p)
        \/ \E u \in Users : purchase_credit_render(p, u)
        \/ \E u \in Users, a \in SubmittedAmounts : purchase_credit_create(p, u, a)
        \/ purchase_credit_get(p)
        \/ purchase_credit_save(p)
        \/ \E u \in Users : purchase_credit_fixed_get(p, u)
        \/ purchase_credit_fixed_save(p)
        \/ purchase_credit_fixed_create(p)
        \/ \E u \in Users, a \in CreditsNeeded, saved \in BOOLEAN :
               check_credit_balance(p, u, a, saved)
        \/ use_credits_get(p)
        \/ use_credits_save(p)
        \/ use_credits_create(p)
        \/ use_credits_create_unsaved(p)
        \/ use_credits_insufficient(p)
        \/ create_blog_post_save(p)
        \/ \E u \in Users, id \in PostIds : boost_post_get(p, u, id)
        \/ \E u \in Users, id \in PostIds : boost_post_404(p, u, id)
        \/ boost_post_save(p)
        \/ boost_post_boost(p)
        \/ boost_post_create(p)
        \/ boost_post_insufficient(p)
        \/ \E u \in Users : post_list(p, u)
        \/ \E u \in Users : create_post(p, u)
        \/ \E u \in Users : credit_summary(p, u)
        \/ Commit(p)
        \/ Fail(p)

Spec == Init /\ [][Next]_vars

\* ---- credit_summary on a ledger with a history ----

\* the order of the timestamps against the order of insertion: requests
\* commit in another order than they called now(), and two rows can carry the
\* same timestamp
DatePatterns == {"ascending", "descending", "paired"}
DateOf(pat, i, n) ==
    IF pat = "ascending" THEN i
    ELSE IF pat = "descending" THEN n + 1 - i
    ELSE (i + 1) \div 2

\* n CreditPurchase rows of user 1, but for row other, which is of user 2;
\* amounts as purchase_credit of helpers.py (any) and of helpers3.py (fixed)
\* leave them
PurchaseRows(n, other, pat) ==
    [i \in 1..n |->
        [user |-> IF i = other THEN 2 ELSE 1,
         amount |-> IF i % 2 = 1 THEN CREDIT_PURCHASE_AMOUNT ELSE 100,
         date |-> DateOf(pat, i, n)]]

\* m CreditUsage rows of user 1, but for row other, which is of user 2
UsageRows(m, other, pat) ==
    [i \in 1..m |->
        [user |-> IF i = other THEN 2 ELSE 1, amount |-> BOOST_COST,
         date |-> DateOf(pat, i, m),
         description |-> <<"Credit usage">>, object |-> 0]]

\* the ledger after a history of purchases and spends that has left every
\* balance equal to the user's purchases minus the user's usages; a user
\* who never purchased has no balance row; two more requests can start
InitSummary ==
    /\ \E n \in 0..MaxRows, m \in {0, 1, MaxRows}, pat \in DatePatterns :
         \E po \in 0..n, uo \in {0, m} :
            /\ purchases = PurchaseRows(n, po, pat)
            /\ usages = UsageRows(m, uo, pat)
    /\ \A u \in Users :
          /\ SumAmounts(purchases, u) >= SumAmounts(usages, u)
          /\ RowsOf(usages, u) # {} => RowsOf(purchases, u) # {}
    /\ balance = [u \in Users |->
                     IF RowsOf(purchases, u) = {} THEN <<>>
                     ELSE <<SumAmounts(purchases, u) - SumAmounts(usages, u)>>]
    /\ posts = <<>>
    /\ blogs = {}
    /\ pc = [p \in Procs |-> "idle"]
    /\ req = [p \in Procs |-> NoReq]
    /\ local = [p \in Procs |-> NoLocal]
    /\ txn = [p \in Procs |-> NoTxn]
    /\ hist = <<>>
    /\ rolled = FALSE
    /\ nops = MaxOps - 2

\* credit_summary beside the purchases of helpers3.py
NextSummary ==
    \E p \in Procs :
        \/ \E u \in Users : credit_summary_get(p, u)
        \/ credit_summary_total_purchased(p)
        \/ credit_summary_total_used(p)
        \/ credit_summary_recent_purchases(p)
        \/ credit_summary_recent_usages(p)
        \/ credit_summary_return(p)
        \/ \E u \in Users : purchase_credit_fixed_get(p, u)
        \/ purchase_credit_fixed_save(p)
        \/ purchase_credit_fixed_create(p)
        \/ Commit(p)
        \/ Fail(p)

SpecSummary == InitSummary /\ [][NextSummary]_vars

\* ---- the ledger as a client sees it ----

\* the user's stored balance (a user without a row has the default, 0)
BalOf(u) == IF Len(balance[u]) = 0 THEN 0 ELSE balance[u][1]

IsPurchase(name) == name \in {"purchase_credit", "purchase_credit_fixed"}
IsSpend(name) == name \in {"use_credit", "use_credits", "boost_post"}

\* request p takes this step
Steps(p) == pc'[p] # pc[p]
\* request p returns and its transaction commits in this step
Commits(p) == pc[p] = "commit" /\ pc'[p] # "commit"
              /\ Len(hist') = Len(hist) + 1

LedgerUnchanged ==
    /\ purchases' = purchases
    /\ usages' = usages
    /\ \A u \in Users : BalOf(u)' = BalOf(u)

\* every amount that reached the ledger or was submitted by a returned
\* request is a valid one (> 0)
ValidAmounts ==
    /\ \A i \in 1..Len(purchases) : purchases[i].amount > 0
    /\ \A i \in 1..Len(usages) : usages[i].amount > 0
    /\ \A i \in 1..Len(hist) : hist[i].amount > 0

\* ---- C1 ----
\* C1: for every user, in every committed state, the stored balance equals
\* the sum of the user's CreditPurchase amounts minus the sum of the user's
\* CreditUsage amounts (stated for ledgers of valid amounts, so that a
\* violation is one of the interleaving alone).
C1_BalanceIsPurchasesMinusUsages ==
    ValidAmounts =>
        \A u \in Users :
            BalOf(u) = SumAmounts(purchases, u) - SumAmounts(usages, u)

\* ---- C2 ----
\* C2: two Spend calls of one user that read the balance C in the same
\* committed state (neither had committed when the other read) and spend A
\* and B with A + B > C never both succeed; from balance 1.00 two such
\* Spend(1.00) calls end with one success and one insufficient-credit failure
\* (stated for valid amounts).
C2_NoDoubleSpend ==
    ValidAmounts =>
    \A i, j \in 1..Len(hist) :
        ( /\ i < j
          /\ IsSpend(hist[i].name) /\ IsSpend(hist[j].name)
          /\ hist[i].user = hist[j].user
          /\ hist[i].readAt = hist[j].readAt
          /\ hist[i].amount + hist[j].amount > hist[i].readBal )
        => ~(hist[i].result = "ok" /\ hist[j].result = "ok")

\* ---- C3 ----
\* what a request does to a balance when it runs alone
SerialBalance(b, h) ==
    IF h.result = "not_found" THEN b
    ELSE IF IsPurchase(h.name) THEN b + h.amount
    ELSE IF b >= h.amount THEN b - h.amount ELSE b
SerialResult(b, h) ==
    IF h.result = "not_found" THEN "not_found"
    ELSE IF IsPurchase(h.name) \/ b >= h.amount THEN "ok" ELSE "insufficient"

RECURSIVE Replays(_, _, _)
\* running the returned requests one after the other in the given order, from
\* position k with the balances b, gives every request the result it returned
\* and ends with the stored balances
Replays(order, k, b) ==
    IF k > Len(hist) THEN \A u \in Users : b[u] = BalOf(u)
    ELSE LET h == hist[order[k]]
         IN /\ SerialResult(b[h.user], h) = h.result
            /\ Replays(order, k + 1,
                       [b EXCEPT ![h.user] = SerialBalance(b[h.user], h)])

Orders == {f \in [1..Len(hist) -> 1..Len(hist)] :
              \A i, j \in 1..Len(hist) : i # j => f[i] # f[j]}

\* C3: the results of the requests that returned and the stored balances are
\* those of some serial order of the same requests (no update is lost);
\* stated for valid amounts.
C3_Serializable ==
    ValidAmounts => \E order \in Orders : Replays(order, 1, [u \in Users |-> 0])

\* ---- C4 ----
\* C4: after every committed successful Spend the stored balance of the
\* spending user is >= 0 (stated for valid amounts).
C4_SpendLeavesNonNegative ==
    [][\A p \in Procs, u \in Users :
          (Commits(p) /\ req[p].user = u /\ IsSpend(req[p].name)
           /\ local[p].result = "ok" /\ ValidAmounts /\ req[p].amount > 0)
          => BalOf(u)' >= 0]_vars

\* ---- C5 ----
\* the Spend of p read a balance smaller than its amount
Insufficient(p) ==
    \/ pc[p] \in {"uc_check", "ucs_check", "bp_check"}
       /\ local[p].readBal < req[p].amount
    \/ pc[p] = "commit" /\ IsSpend(req[p].name)
       /\ local[p].result = "insufficient"

\* C5: a Spend whose amount exceeds the balance it reads fails (it returns
\* the insufficient-credit result) and none of its steps, its commit
\* included, changes a balance, a CreditUsage row, a CreditPurchase row or a
\* post.
C5_InsufficientSpendMutatesNothing ==
    [][\A p \in Procs :
          (Insufficient(p) /\ Steps(p))
          => /\ LedgerUnchanged
             /\ posts' = posts
             /\ pc'[p] \in {"commit", "idle"}
             /\ pc'[p] = "commit" => local'[p].result = "insufficient"
             /\ Commits(p) => hist'[Len(hist')].result = "insufficient"]_vars

\* Scenario C has happened: a Spend of 1.00 on balance 0.00 returned
\* insufficient and there is no CreditUsage row
C5_Witness ==
    /\ Len(hist) >= 1
    /\ IsSpend(hist[1].name)
    /\ hist[1].amount = 100 /\ hist[1].readBal = 0
    /\ hist[1].result = "insufficient"
    /\ usages = <<>>

\* ---- C6 ----
\* C6: a Purchase with an amount <= 0 creates no CreditPurchase row and
\* leaves the balance unchanged.
C6_InvalidPurchaseRejected ==
    [][\A p \in Procs :
          (IsPurchase(req[p].name) /\ req[p].amount <= 0 /\ Steps(p))
          => (purchases' = purchases /\ \A u \in Users : BalOf(u)' = BalOf(u))]_vars

\* ---- C7 ----
\* C7: the stored balance of every user is >= 0 in every committed state.
C7_BalanceNonNegative == \A u \in Users : BalOf(u) >= 0

\* ---- C8 ----
\* C8: a Spend with an amount <= 0 changes no balance and appends no
\* CreditUsage row; every CreditUsage row has an amount > 0.
C8_SpendRequiresPositiveAmount ==
    /\ [][\A p \in Procs :
            (IsSpend(req[p].name) /\ req[p].amount <= 0 /\ Steps(p))
            => (usages' = usages /\ \A u \in Users : BalOf(u)' = BalOf(u))]_vars
    /\ [](\A i \in 1..Len(usages) : usages[i].amount > 0)

\* ---- C9 ----
\* C9: a Purchase or Spend is all-or-nothing.  No step of it before its
\* commit, and no failure of it, changes the stored balances, the logs or a
\* post's is_boosted; its commit appends its log row exactly when it writes
\* the balance, and the post is boosted exactly when its usage row is
\* appended.
C9_AllOrNothing ==
    [][\A p \in Procs :
          Steps(p) =>
            IF Commits(p)
            THEN /\ (purchases' # purchases \/ usages' # usages) <=> txn[p].balSet
                 /\ (req[p].name = "boost_post")
                        => ((posts' # posts \/ txn[p].boost # 0)
                              <=> usages' # usages)
                 /\ ~(purchases' # purchases /\ usages' # usages)
            ELSE LedgerUnchanged /\ posts' = posts]_vars

\* a transaction was rolled back after it had written, and another committed
C9_Witness == rolled /\ Len(hist) >= 1 /\ purchases # <<>>

\* ---- C10 ----
\* C10: there is at most one balance row per user, committed or pending; a
\* row that get_or_create creates is read with amount 0; and once a user has
\* a row, no later call adds or replaces one.
C10_GetOrCreateDuplicateFree ==
    /\ [](\A u \in Users :
            Len(balance[u])
            + Cardinality({p \in Procs : pc[p] # "idle" /\ req[p].user = u
                                          /\ txn[p].created}) <= 1)
    /\ [](\A p \in Procs : txn[p].created => local[p].readBal = 0)
    /\ [][\A u \in Users :
            /\ Len(balance[u]) = 1 => Len(balance'[u]) = 1
            /\ (Len(balance[u]) = 0 /\ Len(balance'[u]) = 1
                /\ \A p \in Procs : ~Commits(p)) => balance'[u][1] = 0]_vars

\* two requests of one user both called get_or_create and returned; the user
\* has one row
C10_Witness ==
    \E u \in Users :
        /\ Len(balance[u]) = 1
        /\ Len(hist) >= 2
        /\ hist[1].user = u /\ hist[2].user = u
        /\ hist[1].readAt = hist[2].readAt

\* ---- C11 ----
\* C11: a successful Purchase(user, amount) increases the user's stored
\* balance by exactly amount and appends exactly one CreditPurchase row of
\* that user and amount, leaving the usage log unchanged (stated for valid
\* amounts).
C11_PurchaseAddsAmount ==
    [][\A p \in Procs, u \in Users :
          (Commits(p) /\ req[p].user = u /\ IsPurchase(req[p].name)
           /\ local[p].result = "ok"
           /\ ValidAmounts /\ req[p].amount > 0)
          => /\ BalOf(u)' = BalOf(u) + req[p].amount
             /\ Len(purchases') = Len(purchases) + 1
             /\ purchases'[Len(purchases')].user = u
             /\ purchases'[Len(purchases')].amount = req[p].amount
             /\ SubSeq(purchases', 1, Len(purchases)) = purchases
             /\ usages' = usages]_vars

\* ---- C12 ----
\* the description and the reference a Spend is given: use_credits takes
\* both as arguments; use_credit and boost_post take neither and build the
\* description themselves
GivenDescription(r) ==
    IF r.name = "use_credits" THEN <<"given">>
    ELSE IF r.name = "boost_post" THEN <<"Boost post", r.post>>
    ELSE <<"Credit usage">>
GivenObject(r) == IF r.name = "use_credit" THEN 0 ELSE r.post

\* C12: a successful Spend decrements the user's stored balance by exactly
\* amount and appends exactly one CreditUsage row carrying that amount, the
\* given description and the given reference, leaving the purchase log
\* unchanged (stated for valid amounts).
C12_SpendSubtractsAmount ==
    [][\A p \in Procs, u \in Users :
          (Commits(p) /\ req[p].user = u /\ IsSpend(req[p].name)
           /\ local[p].result = "ok"
           /\ ValidAmounts /\ req[p].amount > 0)
          => /\ BalOf(u)' = BalOf(u) - req[p].amount
             /\ Len(usages') = Len(usages) + 1
             /\ usages'[Len(usages')].user = u
             /\ usages'[Len(usages')].amount = req[p].amount
             /\ usages'[Len(usages')].description = GivenDescription(req[p])
             /\ usages'[Len(usages')].object = GivenObject(req[p])
             /\ SubSeq(usages', 1, Len(usages)) = usages
             /\ purchases' = purchases]_vars

\* ---- C13 ----
\* C13: credit_summary performs no writes, also for a user who has no
\* balance row yet: the balance rows and both logs are the same after every
\* step of the request as before it.
C13_SummaryPerformsNoWrites ==
    [][\A p \in Procs :
          (Steps(p) /\ (req[p].name = "credit_summary"
                        \/ req'[p].name = "credit_summary"))
          => balance' = balance /\ purchases' = purchases /\ usages' = usages
      ]_vars

\* ---- C14 ----
\* C14: the summary reads a coherent snapshot: the current_balance it shows
\* equals the total_purchased minus the total_used it shows, also when other
\* requests commit while it runs.
C14_SummaryIsCoherentSnapshot ==
    \A p \in Procs :
        pc[p] = "cs_return"
        => local[p].current_balance
             = local[p].total_purchased - local[p].total_used

\* ---- C15 ----
RECURSIVE SumOver(_, _)
\* the sum of the amounts of the rows with the ids S
SumOver(rows, S) ==
    IF S = {} THEN 0
    ELSE LET i == CHOOSE j \in S : TRUE
         IN rows[i].amount + SumOver(rows, S \ {i})

\* C15: total_purchased and total_used are the sums of the amounts of all
\* the user's N CreditPurchase rows and M CreditUsage rows, whatever the order
\* of insertion and however many rows there are (not the recent five only).
C15_TotalsAreAllTimeSums ==
    [][\A p \in Procs :
          /\ (pc[p] = "cs_purchased" /\ pc'[p] = "cs_used")
             => local'[p].total_purchased
                  = SumOver(purchases, RowsOf(purchases, req[p].user))
          /\ (pc[p] = "cs_used" /\ pc'[p] = "cs_recent_p")
             => local'[p].total_used
                  = SumOver(usages, RowsOf(usages, req[p].user))]_vars

\* both totals are computed for a user with more than five rows in each log,
\* beside rows of another user
C15_Witness ==
    \E p \in Procs, u \in Users :
        /\ pc[p] = "cs_recent_p" /\ req[p].user = u
        /\ Cardinality(RowsOf(purchases, u)) > 5
        /\ Cardinality(RowsOf(usages, u)) > 5
        /\ \E i \in 1..Len(purchases) : purchases[i].user # u
        /\ \E i \in 1..Len(usages) : usages[i].user # u
        /\ local[p].total_purchased > 5 * CREDIT_PURCHASE_AMOUNT
        /\ local[p].total_used > 5 * BOOST_COST

\* ---- C16 ----
\* the post exists and belongs to the user
OwnsPost(u, id) == id \in 1..Len(posts) /\ posts[id].user = u

\* C16: boost_post for a post that does not exist or is not owned by the
\* requesting user fails with not-found and mutates nothing: no balance
\* debit, no CreditUsage row, no is_boosted change, no balance row created;
\* and only such a request fails with not-found, every other one goes on.
C16_BoostNotFoundMutatesNothing ==
    /\ [][(Len(hist') = Len(hist) + 1
           /\ hist'[Len(hist')].result = "not_found")
          => /\ db' = db
             /\ txn' = txn
             /\ ~OwnsPost(hist'[Len(hist')].user, hist'[Len(hist')].post)]_vars
    /\ [](\A p \in Procs :
            req[p].name = "boost_post" => OwnsPost(req[p].user, req[p].post))
    /\ [](\A i \in 1..Len(hist) :
            (hist[i].name = "boost_post" /\ hist[i].result # "not_found")
            => OwnsPost(hist[i].user, hist[i].post))

\* a boost of another user's post has failed with not-found
C16_Witness ==
    \E i \in 1..Len(hist) :
        /\ hist[i].result = "not_found"
        /\ hist[i].post \in 1..Len(posts)
        /\ posts[hist[i].post].user # hist[i].user
        /\ ~posts[hist[i].post].is_boosted

\* ---- C17 ----
\* t lists at most five rows, all of user u, without repetition, in
\* descending order of date, and no row of u that is left out is more recent
\* than a listed one; it lists five when u has five or more
IsRecent(t, rows, u) ==
    /\ Len(t) <= 5
    /\ Len(t) = 5 \/ Len(t) = Cardinality(RowsOf(rows, u))
    /\ \A k \in 1..Len(t) : t[k] \in 1..Len(rows) /\ rows[t[k]].user = u
    /\ \A k, l \in 1..Len(t) :
          k < l => t[k] # t[l] /\ rows[t[k]].date >= rows[t[l]].date
    /\ \A i \in 1..Len(rows) :
          (rows[i].user = u /\ \A k \in 1..Len(t) : t[k] # i)
          => \A k \in 1..Len(t) : rows[t[k]].date >= rows[i].date

\* C17: recent_purchases and recent_usages hold at most five rows each, only
\* rows of the requesting user, in descending order of date, and they are
\* the user's most recent rows.
C17_RecentListsAreLatestFive ==
    [][\A p \in Procs :
          /\ (pc[p] = "cs_recent_p" /\ pc'[p] = "cs_recent_u")
             => IsRecent(local'[p].recent_purchases, purchases, req[p].user)
          /\ (pc[p] = "cs_recent_u" /\ pc'[p] = "cs_return")
             => IsRecent(local'[p].recent_usages, usages, req[p].user)]_vars

\* both lists are read for a user with more than five rows in each log; the
\* purchases listed are not the first five inserted, and a more recent row
\* of another user is left out
C17_Witness ==
    \E p \in Procs, u \in Users :
        /\ pc[p] = "cs_return" /\ req[p].user = u
        /\ Cardinality(RowsOf(purchases, u)) > 5
        /\ Len(local[p].recent_purchases) = 5
        /\ Len(local[p].recent_usages) = 5
        /\ \E k \in 1..5 : local[p].recent_purchases[k] > 5
        /\ \E i \in 1..Len(purchases) :
              /\ purchases[i].user # u
              /\ purchases[i].date > purchases[local[p].recent_purchases[5]].date

\* ---- C18 ----
\* the CreditUsage rows boost_post recorded for the post
BoostUsages(id) ==
    {i \in 1..Len(usages) : usages[i].description = <<"Boost post", id>>}

C19_BoostChargedOnce ==
    ValidAmounts => \A id \in PostIds : Cardinality(BoostUsages(id)) <= 1

\* ---- C20 ----
\* the CreditUsage rows use_credits recorded for the blog post with key id
BlogUsages(id) ==
    {i \in 1..Len(usages) :
        usages[i].description = <<"given">> /\ usages[i].object = id}
\* a create_blog_post request for that blog post is still running
BlogInFlight(id) ==
    \E p \in Procs : req[p].name = "use_credits" /\ req[p].post = id

\* C20: in create_blog_post the debit and the post creation are jointly
\* atomic: once the request is over, credits are debited and the usage is
\* recorded for a blog post only if that blog post is saved, and a blog post
\* is saved only if its usage is recorded.
C20_DebitAndPostTogether ==
    \A id \in 1..MaxOps :
        ~BlogInFlight(id) =>
            /\ (\E i \in BlogUsages(id) : usages[i].amount > 0) => id \in blogs
            /\ id \in blogs => BlogUsages(id) # {}

====
